---------------------------- MODULE Spec2Model ----------------------------
(***************************************************************************)
(* Line counting over the regular files of a directory (src/main.cpp).     *)
(*                                                                         *)
(* Two specifications share this module.                                   *)
(*   CountSpec  one file, the three single-file counters run on it step    *)
(*              by step (count_lines_getline, count_lines_ncount,          *)
(*              count_buffered_ncount).                                    *)
(*   Spec       main(): the path checks, the directory enumeration, the    *)
(*              option dispatch, the benchmark sequence and the three      *)
(*              std::async fan-out executors with their futures.           *)
(*                                                                         *)
(* LineCount is uint64_t in the source.  Every count of the model is at    *)
(* most MaxFiles * MaxLen, far from 2^64, so the width is not modelled.    *)
(***************************************************************************)
EXTENDS Integers, Sequences, FiniteSets, TLC

\* ------------------------------------------------------------------ bounds
\* Longest file content drawn by CountSpec.
MaxLen == 4
\* Most entries a directory listing holds in Spec.
MaxFiles == 2
\* Most option letters a command line of Spec carries.
MaxOptions == 1
\* The block size of count_buffered_ncount.  The source sets 1 MiB
\* (src/main.cpp:12); the model scales it down so that files shorter than a
\* block, of exactly one or two blocks, and of blocks plus a tail all occur.
NCOUNT_BUFFER_SIZE == 2

\* -------------------------------------------------------------------- bytes
NL == "\n"
NUL == "\\0"
Alphabet == {"a", "b", NL, NUL}

Min(a, b) == IF a < b THEN a ELSE b

\* All byte strings of length at most n over the alphabet A.
Contents(A, n) == UNION {[1..k -> A] : k \in 0..n}

\* A regular file as the counters see it: whether open() succeeds, and its
\* bytes.
FileOf(readable, content) == [readable |-> readable, content |-> content]

\* --------------------------------------------------------- the stream layer
\* std::ifstream file{file_path}: the filebuf is open iff the open succeeded;
\* a failed open sets failbit.  pos is the get position, gcount the count of
\* the last unformatted read.
ifstream(f) ==
    [is_open |-> f.readable, pos |-> 0, eofbit |-> FALSE,
     failbit |-> ~f.readable, gcount |-> 0]

good(s) == ~s.eofbit /\ ~s.failbit

\* operator bool of a stream: !fail().
ok(s) == ~s.failbit

\* Rest as it would be if a filebuf that failed to open still delivered the
\* file's bytes.
RestOfUnopened(f, s) == SubSeq(f.content, s.pos + 1, Len(f.content))

\* The bytes the filebuf can still deliver: none when it is not open.
Rest(f, s) ==
    IF s.is_open THEN SubSeq(f.content, s.pos + 1, Len(f.content)) ELSE <<>>

\* Index of the first c in the sequence q, 0 when there is none.
FirstIndex(q, c) ==
    IF \E i \in 1..Len(q) : q[i] = c
    THEN CHOOSE i \in 1..Len(q) : q[i] = c /\ \A j \in 1..(i - 1) : q[j] # c
    ELSE 0

\* getline as it would be if an extraction that meets end of file at once
\* were still reported as a record: failbit is left clear there.
getline_empty_record(f, s, line) ==
    IF ~good(s)
    THEN [stream |-> [s EXCEPT !.failbit = TRUE], line |-> line]
    ELSE LET rest == Rest(f, s)
             k == FirstIndex(rest, NL)
         IN IF k > 0
            THEN [stream |-> [s EXCEPT !.pos = s.pos + k],
                  line |-> SubSeq(rest, 1, k - 1)]
            ELSE [stream |-> [s EXCEPT !.pos = s.pos + Len(rest),
                                       !.eofbit = TRUE],
                  line |-> rest]

\* getline as it would be if a record that ends at end of file, without the
\* delimiter, were reported as a failure.
getline_drop_partial(f, s, line) ==
    IF ~good(s)
    THEN [stream |-> [s EXCEPT !.failbit = TRUE], line |-> line]
    ELSE LET rest == Rest(f, s)
             k == FirstIndex(rest, NL)
         IN IF k > 0
            THEN [stream |-> [s EXCEPT !.pos = s.pos + k],
                  line |-> SubSeq(rest, 1, k - 1)]
            ELSE [stream |-> [s EXCEPT !.pos = s.pos + Len(rest),
                                       !.eofbit = TRUE, !.failbit = TRUE],
                  line |-> rest]

\* std::getline(file, line): the sentry fails on a stream that is not good
\* (failbit, line untouched).  Otherwise bytes are extracted up to and
\* including the delimiter, which is dropped; reaching end of file sets
\* eofbit, and failbit as well when nothing at all was extracted.
getline(f, s, line) ==
    IF ~good(s)
    THEN [stream |-> [s EXCEPT !.failbit = TRUE], line |-> line]
    ELSE LET rest == Rest(f, s)
             k == FirstIndex(rest, NL)
         IN IF k > 0
            THEN [stream |-> [s EXCEPT !.pos = s.pos + k],
                  line |-> SubSeq(rest, 1, k - 1)]
            ELSE [stream |-> [s EXCEPT !.pos = s.pos + Len(rest),
                                       !.eofbit = TRUE,
                                       !.failbit = (Len(rest) = 0)],
                  line |-> rest]

\* file.read(buffer.data(), n): gcount is reset, the sentry fails on a stream
\* that is not good (failbit, buffer untouched).  Otherwise up to n bytes are
\* stored at the front of the buffer, the bytes behind them keep what an
\* earlier fill left there, and a short read sets eofbit and failbit.
read(f, s, buffer, n) ==
    IF ~good(s)
    THEN [stream |-> [s EXCEPT !.failbit = TRUE, !.gcount = 0],
          buffer |-> buffer]
    ELSE LET rest == Rest(f, s)
             m == Min(n, Len(rest))
         IN [stream |-> [s EXCEPT !.pos = s.pos + m, !.gcount = m,
                                  !.eofbit = (m < n), !.failbit = (m < n)],
             buffer |-> [i \in 1..Len(buffer) |->
                            IF i <= m THEN rest[i] ELSE buffer[i]]]

\* std::count(first, last, value) over a random-access range [from, to) of a
\* buffer (1-based here: the elements from + 1 .. to).
RECURSIVE CountRange(_, _, _, _)
CountRange(buffer, from, to, value) ==
    IF from >= to THEN 0
    ELSE (IF buffer[from + 1] = value THEN 1 ELSE 0)
         + CountRange(buffer, from + 1, to, value)

\* std::count over std::istreambuf_iterator<char>(file) up to the end
\* iterator: the iterator reads the filebuf directly (sgetc/sbumpc), ignoring
\* the stream's state bits, and equals the end iterator once the filebuf
\* returns EOF, at once for a filebuf that is not open.
RECURSIVE CountStreambuf(_, _, _)
CountStreambuf(f, s, value) ==
    IF Rest(f, s) = <<>> THEN 0
    ELSE (IF Rest(f, s)[1] = value THEN 1 ELSE 0)
         + CountStreambuf(f, [s EXCEPT !.pos = s.pos + 1], value)

\* std::vector<char> buffer(NCOUNT_BUFFER_SIZE): value-initialised chars.
NewBuffer == [i \in 1..NCOUNT_BUFFER_SIZE |-> NUL]

\* --------------------------------------------- the counters, run to the end
\* The while loop of count_lines_getline from stream state s on.
RECURSIVE GetlineLoop(_, _, _, _)
GetlineLoop(f, s, line, lines_count) ==
    LET r == getline(f, s, line)
    IN IF ok(r.stream)
       THEN GetlineLoop(f, r.stream, r.line, lines_count + 1)
       ELSE lines_count

count_lines_getline(f) == GetlineLoop(f, ifstream(f), <<>>, 0)

\* count_lines_ncount as it would be if it counted records, the final one
\* without a delimiter included, instead of delimiter bytes.
count_lines_ncount_records(f) == GetlineLoop(f, ifstream(f), <<>>, 0)

count_lines_ncount(f) == CountStreambuf(f, ifstream(f), NL)

\* The tail scan as it would be if it ran over the whole buffer.
TailCountWholeBuffer(s, buffer) == CountRange(buffer, 0, Len(buffer), NL)

\* What count_buffered_ncount adds after the loop: the first gcount bytes.
TailCount(s, buffer) == CountRange(buffer, 0, s.gcount, NL)

\* The while loop of count_buffered_ncount and the tail scan behind it.
RECURSIVE BufferedLoop(_, _, _, _)
BufferedLoop(f, s, buffer, lines_count) ==
    LET r == read(f, s, buffer, Len(buffer))
    IN IF ok(r.stream)
       THEN BufferedLoop(f, r.stream, r.buffer,
                         lines_count + CountRange(r.buffer, 0, Len(r.buffer), NL))
       ELSE lines_count + TailCount(r.stream, r.buffer)

count_buffered_ncount(f) == BufferedLoop(f, ifstream(f), NewBuffer, 0)


\* ------------------------------------------------------------------- state
VARIABLES
    \* CountSpec: the file under count and the locals of the three counters.
    file,
    g_pc, g_file, g_line, g_lines_count,
    n_pc, n_lines_count,
    m_pc, m_file, m_buffer, m_lines_count,
    \* Spec: main() and the fan-out executor it is in.
    pc, options, directory, dir, files,
    call_no, executor, futures, lines_count, out

countVars == <<file, g_pc, g_file, g_line, g_lines_count, n_pc, n_lines_count,
               m_pc, m_file, m_buffer, m_lines_count>>
mainVars == <<pc, options, directory, dir, files, call_no, executor, futures,
              lines_count, out>>
vars == <<countVars, mainVars>>

\* ------------------------------------------------- CountSpec: one file
\* The three counters right after their declarations (lines 212-214, 228,
\* 240-242), each on its own stream over the same file.
CountersStart(f) ==
    /\ file = f
    /\ g_pc = "while" /\ g_file = ifstream(f) /\ g_line = <<>>
    /\ g_lines_count = 0
    /\ n_pc = "count" /\ n_lines_count = 0
    /\ m_pc = "while" /\ m_file = ifstream(f) /\ m_buffer = NewBuffer
    /\ m_lines_count = 0

\* main() is not running.
MainIdle ==
    /\ pc = "idle" /\ options = {} /\ directory = "" /\ dir = {}
    /\ files = <<>> /\ call_no = 0 /\ executor = "none" /\ futures = <<>>
    /\ lines_count = 0 /\ out = <<>>

CountInit ==
    /\ \E readable \in BOOLEAN, content \in Contents(Alphabet, MaxLen) :
          CountersStart(FileOf(readable, content))
    /\ MainIdle

\* count_lines_getline, the loop condition: std::getline(file, line).
GetlineCall ==
    /\ g_pc = "while"
    /\ LET r == getline(file, g_file, g_line)
       IN /\ g_file' = r.stream
          /\ g_line' = r.line
          /\ g_pc' = IF ok(r.stream) THEN "body" ELSE "done"
    /\ UNCHANGED <<file, g_lines_count, n_pc, n_lines_count,
                   m_pc, m_file, m_buffer, m_lines_count, mainVars>>

\* count_lines_getline, the loop body: ++lines_count.
GetlineIncrement ==
    /\ g_pc = "body"
    /\ g_lines_count' = g_lines_count + 1
    /\ g_pc' = "while"
    /\ UNCHANGED <<file, g_file, g_line, n_pc, n_lines_count,
                   m_pc, m_file, m_buffer, m_lines_count, mainVars>>

\* count_lines_ncount: the one std::count over the stream's bytes.
NcountCount ==
    /\ n_pc = "count"
    /\ n_lines_count' = count_lines_ncount(file)
    /\ n_pc' = "done"
    /\ UNCHANGED <<file, g_pc, g_file, g_line, g_lines_count,
                   m_pc, m_file, m_buffer, m_lines_count, mainVars>>

\* count_buffered_ncount, the loop condition: file.read(buffer, size).
BufferedRead ==
    /\ m_pc = "while"
    /\ LET r == read(file, m_file, m_buffer, Len(m_buffer))
       IN /\ m_file' = r.stream
          /\ m_buffer' = r.buffer
          /\ m_pc' = IF ok(r.stream) THEN "body" ELSE "tail"
    /\ UNCHANGED <<file, g_pc, g_file, g_line, g_lines_count, n_pc,
                   n_lines_count, m_lines_count, mainVars>>

\* count_buffered_ncount, the loop body: count the whole buffer.
BufferedCountBlock ==
    /\ m_pc = "body"
    /\ m_lines_count' =
          m_lines_count + CountRange(m_buffer, 0, Len(m_buffer), NL)
    /\ m_pc' = "while"
    /\ UNCHANGED <<file, g_pc, g_file, g_line, g_lines_count, n_pc,
                   n_lines_count, m_file, m_buffer, mainVars>>

\* count_buffered_ncount after the loop: count the bytes of the last read.
BufferedCountTail ==
    /\ m_pc = "tail"
    /\ m_lines_count' = m_lines_count + TailCount(m_file, m_buffer)
    /\ m_pc' = "done"
    /\ UNCHANGED <<file, g_pc, g_file, g_line, g_lines_count, n_pc,
                   n_lines_count, m_file, m_buffer, mainVars>>

CountNext ==
    \/ GetlineCall
    \/ GetlineIncrement
    \/ NcountCount
    \/ BufferedRead
    \/ BufferedCountBlock
    \/ BufferedCountTail

CountSpec == CountInit /\ [][CountNext]_vars

\* ------------------------------------------------------- Spec: main()
\* The paths a run may be given: none (empty string), one that does not
\* exist, a regular file, a directory.
Paths == {"", "/missing", "/file", "/dir"}
exists(p) == p \in {"/file", "/dir"}
is_directory(p) == p = "/dir"

\* The letters parse_cli_options may have collected (std::find only asks
\* whether a letter is among them, so they are kept as a set).
Options == {"h", "b", "n", "g", "m"}

\* What a directory entry may be: a subdirectory, a regular file that cannot
\* be opened, or a regular file that can, with one of these contents.
SampleContents ==
    {<<>>, <<"a", NL>>, <<"a", NL, "b">>, <<NL, NL>>}
EntryKinds ==
    {[type |-> "directory", file |-> FileOf(FALSE, <<>>)],
     [type |-> "regular", file |-> FileOf(FALSE, <<NL, "a">>)]}
    \cup {[type |-> "regular", file |-> FileOf(TRUE, c)] : c \in SampleContents}

\* The listings of "/dir": at most MaxFiles entries with distinct paths.
Listings ==
    UNION {{ {[path |-> p, type |-> k[p].type, file |-> k[p].file] : p \in P} :
               k \in [P -> EntryKinds]} : P \in {1..n : n \in 0..MaxFiles}}

is_regular_file(entry) == entry.type = "regular"

Line(text) == [text |-> text, number |-> <<>>]
LineN(text, n) == [text |-> text, number |-> <<n>>]

\* Calls as it would be if benchmark mode ran the byte-stream strategy first.
CallsNcountFirst(opts) ==
    IF "b" \in opts
    THEN <<"count_ncount_async", "count_getline_async",
           "count_buffered_ncount_async">>
    ELSE IF "n" \in opts THEN <<"count_ncount_async">>
    ELSE IF "g" \in opts THEN <<"count_getline_async">>
    ELSE IF "m" \in opts THEN <<"count_buffered_ncount_async">>
    ELSE <<"count_getline_async">>

\* The executors main calls, in order, for a set of options (lines 64-110).
Calls(opts) ==
    IF "b" \in opts
    THEN <<"count_getline_async", "count_ncount_async",
           "count_buffered_ncount_async">>
    ELSE IF "n" \in opts THEN <<"count_ncount_async">>
    ELSE IF "g" \in opts THEN <<"count_getline_async">>
    ELSE IF "m" \in opts THEN <<"count_buffered_ncount_async">>
    ELSE <<"count_getline_async">>

\* The single-file counter an executor hands to std::async.
CounterOf(ex) ==
    CASE ex = "count_getline_async" -> "count_lines_getline"
      [] ex = "count_ncount_async" -> "count_lines_ncount"
      [] ex = "count_buffered_ncount_async" -> "count_buffered_ncount"

\* Running a counter on a file.
Invoke(fn, f) ==
    CASE fn = "count_lines_getline" -> count_lines_getline(f)
      [] fn = "count_lines_ncount" -> count_lines_ncount(f)
      [] fn = "count_buffered_ncount" -> count_buffered_ncount(f)

\* The sum the loop over the futures builds from the values it gets, in
\* launch order (lines 174-177).
RECURSIVE Accumulate(_, _)
Accumulate(values, sum) ==
    IF values = <<>> THEN sum
    ELSE Accumulate(Tail(values), sum + Head(values))

\* What an executor returns for a file list when every task returns.
CountAll(fs, ex) ==
    Accumulate([k \in 1..Len(fs) |-> Invoke(CounterOf(ex), fs[k].file)], 0)

\* What main prints once an executor has returned n (lines 78-81, 86-89,
\* 94-97, 100, 103, 106, 109).  The elapsed time is not carried.
Report(opts, ex, n) ==
    IF "b" \in opts
    THEN <<Line(CASE ex = "count_getline_async" ->
                       "getline method total runing time: "
                  [] ex = "count_ncount_async" ->
                       "ncounting method total runing time: "
                  [] ex = "count_buffered_ncount_async" ->
                       "buffered ncounting method total runing time: "),
           LineN("Total lines: ", n)>>
    ELSE IF "n" \in opts THEN <<LineN("Lines count using ncount method: ", n)>>
    ELSE IF "g" \in opts THEN <<LineN("Lines count using getline method: ", n)>>
    ELSE IF "m" \in opts
         THEN <<LineN("Lines count using buffered ncount method: ", n)>>
    ELSE <<LineN("", n)>>

\* No counter is under step-by-step observation while main runs.
CountersIdle ==
    /\ file = FileOf(FALSE, <<>>)
    /\ g_pc = "idle" /\ g_file = ifstream(file) /\ g_line = <<>>
    /\ g_lines_count = 0
    /\ n_pc = "idle" /\ n_lines_count = 0
    /\ m_pc = "idle" /\ m_file = ifstream(file) /\ m_buffer = NewBuffer
    /\ m_lines_count = 0

\* main after parse_cli_options (line 33), argc >= 2.
Init ==
    /\ CountersIdle
    /\ pc = "help"
    /\ options \in {o \in SUBSET Options : Cardinality(o) <= MaxOptions}
    /\ directory \in Paths
    /\ dir = {} /\ files = <<>> /\ call_no = 0 /\ executor = "none"
    /\ futures = <<>> /\ lines_count = 0 /\ out = <<>>

\* Lines 35-38: the help option wins over everything else.
CheckHelp ==
    /\ pc = "help"
    /\ IF "h" \in options
       THEN pc' = "exit1" /\ out' = Append(out, Line("Usage"))
       ELSE pc' = "directory_empty" /\ out' = out
    /\ UNCHANGED <<countVars, options, directory, dir, files, call_no,
                   executor, futures, lines_count>>

\* Lines 40-43.
CheckDirectoryGiven ==
    /\ pc = "directory_empty"
    /\ IF directory = ""
       THEN pc' = "exit1" /\ out' = Append(out, Line("No directory provided\n"))
       ELSE pc' = "exists" /\ out' = out
    /\ UNCHANGED <<countVars, options, directory, dir, files, call_no,
                   executor, futures, lines_count>>

\* Lines 45-48.
CheckExists ==
    /\ pc = "exists"
    /\ IF ~exists(directory)
       THEN pc' = "exit1" /\ out' = Append(out, Line("Path does not exist\n"))
       ELSE pc' = "is_directory" /\ out' = out
    /\ UNCHANGED <<countVars, options, directory, dir, files, call_no,
                   executor, futures, lines_count>>

\* The check of lines 50-54 as it would be if it let every existing path
\* through.
CheckIsDirectorySkipped ==
    /\ pc = "is_directory"
    /\ pc' = "open_dir"
    /\ UNCHANGED <<countVars, options, directory, dir, files, call_no,
                   executor, futures, lines_count, out>>

\* Lines 50-54.
CheckIsDirectory ==
    /\ pc = "is_directory"
    /\ IF ~is_directory(directory)
       THEN pc' = "exit1" /\ out' = Append(out, Line("Not a directory\n"))
       ELSE pc' = "open_dir" /\ out' = out
    /\ UNCHANGED <<countVars, options, directory, dir, files, call_no,
                   executor, futures, lines_count>>

\* Line 56: the directory_iterator over the path; the listing is whatever
\* the file system holds at that moment.
OpenDirectory ==
    /\ pc = "open_dir"
    /\ \E listing \in Listings : dir' = listing
    /\ pc' = "enumerate"
    /\ UNCHANGED <<countVars, options, directory, files, call_no, executor,
                   futures, lines_count, out>>

\* Lines 58-62, one iteration: the iterator yields the entries in an order
\* the file system chooses; regular files are kept.
EnumerateEntry ==
    /\ pc = "enumerate"
    /\ \E entry \in dir :
          /\ dir' = dir \ {entry}
          /\ files' = IF is_regular_file(entry) THEN Append(files, entry)
                      ELSE files
    /\ UNCHANGED <<countVars, pc, options, directory, call_no, executor,
                   futures, lines_count, out>>

\* Lines 64-73: the iteration is over; benchmark mode announces itself.
EnumerateEnd ==
    /\ pc = "enumerate"
    /\ dir = {}
    /\ out' = IF "b" \in options THEN Append(out, Line("Benchmarking...\n"))
              ELSE out
    /\ call_no' = 1
    /\ pc' = "call"
    /\ UNCHANGED <<countVars, options, directory, dir, files, executor,
                   futures, lines_count>>

\* CallExecutor as it would be if the executors shared one accumulator that
\* is never reset.
CallExecutorSharedCount ==
    /\ pc = "call"
    /\ executor' = Calls(options)[call_no]
    /\ futures' = <<>>
    /\ pc' = "launch"
    /\ UNCHANGED <<countVars, options, directory, dir, files, call_no,
                   lines_count, out>>

\* main calls the next executor (lines 77, 85, 93, 100, 103, 106, 109); the
\* executor starts with no futures and a zero count (lines 147-148, 154).
CallExecutor ==
    /\ pc = "call"
    /\ executor' = Calls(options)[call_no]
    /\ futures' = <<>>
    /\ lines_count' = 0
    /\ pc' = "launch"
    /\ UNCHANGED <<countVars, options, directory, dir, files, call_no, out>>

\* std::async(std::launch::async, counter, file.path()): a future whose
\* task runs the counter on the file of that path.  state is "running" until
\* the task has resolved, "ready" until get() has consumed the result, then
\* "consumed"; raised tells whether the task ended with an exception.
async(fn, entry) ==
    [fn |-> fn, path |-> entry.path, file |-> entry.file,
     state |-> "running", raised |-> FALSE, value |-> 0]

\* Lines 149-152, one iteration of the launch loop.  A std::async that
\* cannot start a thread (std::system_error) is not modelled.
Launch ==
    /\ pc = "launch"
    /\ Len(futures) < Len(files)
    /\ futures' = Append(futures,
                         async(CounterOf(executor), files[Len(futures) + 1]))
    /\ UNCHANGED <<countVars, pc, options, directory, dir, files, call_no,
                   executor, lines_count, out>>

\* LaunchEnd as it would be if the executor could start to wait while files
\* are still to be launched.
LaunchEndEarly ==
    /\ pc = "launch"
    /\ pc' = "get"
    /\ UNCHANGED <<countVars, options, directory, dir, files, call_no,
                   executor, futures, lines_count, out>>

\* The launch loop is over: on to the loop over the futures (line 155).
LaunchEnd ==
    /\ pc = "launch"
    /\ Len(futures) = Len(files)
    /\ pc' = "get"
    /\ UNCHANGED <<countVars, options, directory, dir, files, call_no,
                   executor, futures, lines_count, out>>

\* The process is alive: its tasks can still run.
Alive == pc \notin {"exit0", "exit1", "terminated"}

\* The task of future k runs its counter to the end and stores the result.
TaskReturn(k) ==
    /\ Alive
    /\ k \in 1..Len(futures)
    /\ futures[k].state = "running"
    /\ futures' = [futures EXCEPT
                     ![k].state = "ready",
                     ![k].value = Invoke(futures[k].fn, futures[k].file)]
    /\ UNCHANGED <<countVars, pc, options, directory, dir, files, call_no,
                   executor, lines_count, out>>

\* The task of future k ends with an exception (an allocation that fails:
\* the filebuf's buffer when the stream is opened, the 1 MiB block); the
\* shared state stores it.
TaskThrow(k) ==
    /\ Alive
    /\ k \in 1..Len(futures)
    /\ futures[k].state = "running"
    /\ futures' = [futures EXCEPT ![k].state = "ready", ![k].raised = TRUE]
    /\ UNCHANGED <<countVars, pc, options, directory, dir, files, call_no,
                   executor, lines_count, out>>

\* The future the loop over the futures is at: the first not yet consumed.
NextFuture ==
    IF \E k \in 1..Len(futures) : futures[k].state # "consumed"
    THEN CHOOSE k \in 1..Len(futures) :
            /\ futures[k].state # "consumed"
            /\ \A j \in 1..(k - 1) : futures[j].state = "consumed"
    ELSE 0

\* get as it would be if a stored exception were dropped and counted as 0.
get_swallow(fut) ==
    [raised |-> FALSE, value |-> IF fut.raised THEN 0 ELSE fut.value]

\* future.get() on a resolved future: the stored value, or the stored
\* exception raised again.
get(fut) ==
    IF fut.raised
    THEN [raised |-> TRUE, value |-> 0]
    ELSE [raised |-> FALSE, value |-> fut.value]

\* Lines 155-157, one iteration: get() blocks until the task has resolved.
\* An exception leaves the executor and main, which has no handler: the
\* process is terminated.
GetFuture ==
    /\ pc = "get"
    /\ NextFuture # 0
    /\ futures[NextFuture].state = "ready"
    /\ LET r == get(futures[NextFuture])
       IN IF r.raised
          THEN /\ pc' = "terminated"
               /\ UNCHANGED <<futures, lines_count>>
          ELSE /\ lines_count' = lines_count + r.value
               /\ futures' = [futures EXCEPT ![NextFuture].state = "consumed"]
               /\ pc' = pc
    /\ UNCHANGED <<countVars, options, directory, dir, files, call_no,
                   executor, out>>

\* The loop over the futures is over: return lines_count (line 158).
GetEnd ==
    /\ pc = "get"
    /\ NextFuture = 0
    /\ pc' = "return"
    /\ UNCHANGED <<countVars, options, directory, dir, files, call_no,
                   executor, futures, lines_count, out>>

\* The executor returns: its futures are destroyed, main prints the result
\* and goes on to the next call, or returns 0 (line 112).
ReturnAndReport ==
    /\ pc = "return"
    /\ out' = out \o Report(options, executor, lines_count)
    /\ futures' = <<>>
    /\ executor' = "none"
    /\ IF call_no < Len(Calls(options))
       THEN call_no' = call_no + 1 /\ pc' = "call"
       ELSE call_no' = call_no /\ pc' = "exit0"
    /\ UNCHANGED <<countVars, options, directory, dir, files, lines_count>>

Next ==
    \/ CheckHelp
    \/ CheckDirectoryGiven
    \/ CheckExists
    \/ CheckIsDirectory
    \/ OpenDirectory
    \/ EnumerateEntry
    \/ EnumerateEnd
    \/ CallExecutor
    \/ Launch
    \/ LaunchEnd
    \/ \E k \in 1..MaxFiles : TaskReturn(k)
    \/ \E k \in 1..MaxFiles : TaskThrow(k)
    \/ GetFuture
    \/ GetEnd
    \/ ReturnAndReport

Spec == Init /\ [][Next]_vars

\* ------------------------------------------------ reference quantities
\* The number of newline bytes of a content, by position.
NumNL(content) == Cardinality({i \in 1..Len(content) : content[i] = NL})

EndsWithNL(content) == Len(content) > 0 /\ content[Len(content)] = NL

NoNUL(content) == \A i \in 1..Len(content) : content[i] # NUL

\* 1 for a non-empty content whose last byte is no newline, else 0.
Partial(content) ==
    IF Len(content) > 0 /\ content[Len(content)] # NL THEN 1 ELSE 0

AllCountersDone == g_pc = "done" /\ n_pc = "done" /\ m_pc = "done"

\* ------------------------------------------------------ CountSpec claims
\* C1: on a file whose content ends with '\n' and holds no '\0',
\* count_lines_getline, count_lines_ncount and count_buffered_ncount return
\* the same count.
C1_StrategiesAgree ==
    (AllCountersDone /\ EndsWithNL(file.content) /\ NoNUL(file.content))
        => /\ g_lines_count = n_lines_count
           /\ n_lines_count = m_lines_count

\* C1 witness: the three counters are through a file of more than one block
\* that opens, ends with '\n', holds no '\0' and has two lines.
C1_Witness ==
    /\ AllCountersDone
    /\ file.readable
    /\ EndsWithNL(file.content) /\ NoNUL(file.content)
    /\ Len(file.content) > NCOUNT_BUFFER_SIZE
    /\ g_lines_count = 2

\* C2: count_buffered_ncount returns exactly the number of '\n' bytes of a
\* file that opens, whatever its length relative to the block size.  Block
\* by block: at the loop head the count is that of the bytes read so far,
\* in the body that of the blocks before the one just read, and after the
\* failed read the stream is at the end of the file and the count is that
\* of the bytes before the last gcount ones, so that the tail scan adds the
\* newlines of those gcount bytes and nothing else.
C2_BufferedExact ==
    file.readable =>
        LET c == file.content
            before(n) == NumNL(SubSeq(c, 1, n))
        IN /\ m_pc = "while" => m_lines_count = before(m_file.pos)
           /\ m_pc = "body" =>
                 /\ m_file.gcount = Len(m_buffer)
                 /\ m_lines_count = before(m_file.pos - Len(m_buffer))
           /\ m_pc = "tail" =>
                 /\ m_file.pos = Len(c)
                 /\ m_file.gcount < Len(m_buffer)
                 /\ m_lines_count = before(Len(c) - m_file.gcount)
           /\ m_pc = "done" => m_lines_count = NumNL(c)

\* C2 witness: the count is over for a file of full blocks plus a short
\* tail, and the buffer still holds a newline of the block before, behind
\* the bytes of the last read.
C2_Witness ==
    /\ m_pc = "done"
    /\ file.readable
    /\ Len(file.content) > NCOUNT_BUFFER_SIZE
    /\ m_file.gcount > 0
    /\ m_file.gcount < NCOUNT_BUFFER_SIZE
    /\ m_buffer[NCOUNT_BUFFER_SIZE] = NL
    /\ m_lines_count > 0

\* C2, second witness: a file of exactly two blocks that ends with '\n'.
C2_WitnessExactMultiple ==
    /\ m_pc = "done"
    /\ file.readable
    /\ Len(file.content) = 2 * NCOUNT_BUFFER_SIZE
    /\ EndsWithNL(file.content)
    /\ m_file.gcount = 0

ANLB == FileOf(TRUE, <<"a", NL, "b">>)

\* C3 as stated: on the content "a\nb" count_lines_ncount and
\* count_buffered_ncount each return 2.
C3_Original ==
    (file = ANLB /\ n_pc = "done" /\ m_pc = "done")
        => n_lines_count = 2 /\ m_lines_count = 2

\* C3 amended: on the content "a\nb" count_lines_ncount and
\* count_buffered_ncount each return 1, the number of '\n' bytes; it is
\* count_lines_getline that returns 2.
C3_ByteCountersReturnOne ==
    /\ (file = ANLB /\ n_pc = "done") => n_lines_count = 1
    /\ (file = ANLB /\ m_pc = "done") => m_lines_count = 1
    /\ (file = ANLB /\ g_pc = "done") => g_lines_count = 2

\* C3 witness: the three counters are through "a\nb".
C3_Witness == file = ANLB /\ AllCountersDone

\* ----------------------------------------------------------- Spec claims
RECURSIVE SumSeq(_)
SumSeq(q) == IF q = <<>> THEN 0 ELSE Head(q) + SumSeq(Tail(q))

\* What a counter is to return for a file: nothing for one that cannot be
\* opened, else its newline bytes, and for getline the final record without
\* a newline as well.
RefCount(fn, f) ==
    IF ~f.readable THEN 0
    ELSE NumNL(f.content)
         + (IF fn = "count_lines_getline" THEN Partial(f.content) ELSE 0)

\* The total an executor is to return for the enumerated files.
RefTotal(ex) ==
    SumSeq([k \in 1..Len(files) |-> RefCount(CounterOf(ex), files[k].file)])

InExecutor == pc \in {"launch", "get", "return", "terminated"}

\* C4: an executor launches one task per file, in file order, before it
\* waits on any; it consumes the results one by one, each once (the count
\* is at every moment the sum of the values consumed so far); it reaches
\* its return only with every task resolved and consumed, and then holds
\* the sum of the per-file counts; with no file it launches nothing and
\* returns 0.
C4_FanOut ==
    InExecutor =>
        /\ Len(futures) <= Len(files)
        /\ \A k \in 1..Len(futures) :
              /\ futures[k].path = files[k].path
              /\ futures[k].file = files[k].file
              /\ futures[k].fn = CounterOf(executor)
        /\ \A j, k \in 1..Len(futures) :
              futures[j].path = futures[k].path => j = k
        /\ (\E k \in 1..Len(futures) : futures[k].state = "consumed")
              => Len(futures) = Len(files)
        /\ pc = "launch" =>
              \A k \in 1..Len(futures) : futures[k].state # "consumed"
        /\ pc \in {"get", "return"} => Len(futures) = Len(files)
        /\ lines_count =
              SumSeq([k \in 1..Len(futures) |->
                         IF futures[k].state = "consumed"
                         THEN futures[k].value ELSE 0])
        /\ pc = "return" =>
              /\ \A k \in 1..Len(futures) : futures[k].state = "consumed"
              /\ lines_count = RefTotal(executor)
              /\ files = <<>> => futures = <<>> /\ lines_count = 0

\* C4 witness: an executor is at its return over MaxFiles files, with a
\* total of 2 or more.
C4_Witness ==
    /\ pc = "return"
    /\ Len(files) = MaxFiles
    /\ lines_count >= 2

\* C4, second witness: the task launched last has resolved while the
\* executor still waits on the first one.
C4_WitnessOutOfOrder ==
    /\ pc = "get"
    /\ Len(futures) >= 2
    /\ futures[1].state = "running"
    /\ futures[Len(futures)].state = "ready"

\* C4, third witness: an executor returns 0 for no file.
C4_WitnessNoFile == pc = "return" /\ files = <<>> /\ lines_count = 0

\* C5: a task that failed is never consumed as a value and its executor
\* never reaches its return: the process is terminated by the exception,
\* raised by get() on that very future, after the futures before it were
\* consumed, and nothing is printed for that executor.
C5_FailurePropagates ==
    /\ \A k \in 1..Len(futures) :
          futures[k].raised =>
              /\ futures[k].state = "ready"
              /\ pc \in {"launch", "get", "terminated"}
    /\ pc = "terminated" =>
          /\ NextFuture # 0
          /\ futures[NextFuture].raised
          /\ \A j \in 1..(NextFuture - 1) : ~futures[j].raised
          /\ Len(out) = (IF "b" \in options THEN 1 + 2 * (call_no - 1) ELSE 0)

\* C5 witness: the process was terminated by the failure of the second
\* task, after the first task's value had been consumed.
C5_Witness ==
    /\ pc = "terminated"
    /\ NextFuture = 2
    /\ futures[1].state = "consumed"
    /\ futures[2].raised

\* C6: a task on a file that cannot be opened resolves to 0, whatever the
\* counter, and the total an executor returns is the sum of the counts of
\* the files that can be opened.
C6_FailSoft ==
    /\ \A k \in 1..Len(futures) :
          (futures[k].state # "running" /\ ~futures[k].raised
             /\ ~futures[k].file.readable) => futures[k].value = 0
    /\ pc = "return" =>
          lines_count =
             SumSeq([k \in 1..Len(files) |->
                        IF files[k].file.readable
                        THEN Invoke(CounterOf(executor), files[k].file)
                        ELSE 0])

\* C6 witness: an executor returns a positive total over a file that cannot
\* be opened and one that can.
C6_Witness ==
    /\ pc = "return"
    /\ \E k \in 1..Len(files) : ~files[k].file.readable
    /\ lines_count > 0

\* C6, further witnesses: each of the three counters has returned for a
\* file that cannot be opened.
C6_WitnessEachCounter(fn) ==
    \E k \in 1..Len(futures) :
        /\ futures[k].fn = fn /\ futures[k].state = "consumed"
        /\ ~futures[k].file.readable
C6_WitnessGetline == C6_WitnessEachCounter("count_lines_getline")
C6_WitnessNcount == C6_WitnessEachCounter("count_lines_ncount")
C6_WitnessBuffered == C6_WitnessEachCounter("count_buffered_ncount")

BenchmarkOrder ==
    <<"count_getline_async", "count_ncount_async",
      "count_buffered_ncount_async">>
BenchmarkLabels ==
    <<"getline method total runing time: ",
      "ncounting method total runing time: ",
      "buffered ncounting method total runing time: ">>

\* The output of benchmark mode once the first n strategies have reported.
BenchmarkOutput(n) ==
    /\ Len(out) = 1 + 2 * n
    /\ out[1] = Line("Benchmarking...\n")
    /\ \A j \in 1..n :
          /\ out[2 * j] = Line(BenchmarkLabels[j])
          /\ out[2 * j + 1] = LineN("Total lines: ", RefTotal(BenchmarkOrder[j]))

Orders(S) ==
    {q \in [1..Cardinality(S) -> S] :
        \A i, j \in 1..Cardinality(S) : q[i] = q[j] => i = j}

\* C8: the total an executor returns over the enumerated files, in the
\* order the enumeration happened to give, is the total over A plus the
\* total over B for every split of the files into disjoint sets A and B and
\* every order of A and of B.
C8_Additive ==
    pc = "return" =>
        LET all == {files[k] : k \in 1..Len(files)}
        IN \A A \in SUBSET all :
              \A qa \in Orders(A), qb \in Orders(all \ A) :
                 lines_count = CountAll(qa, executor) + CountAll(qb, executor)

\* C8 witness: an executor returns a total to which two files contribute.
C8_Witness ==
    /\ pc = "return"
    /\ Len(files) >= 2
    /\ \A k \in 1..2 : futures[k].value > 0

\* C9: for a path that does not exist or is no directory, main never opens
\* or enumerates a directory and launches no task; it ends by return 1
\* and, unless the help option took over at line 35, has then printed
\* exactly the error of that case.  No such check is passed otherwise:
\* main is at or past the directory iterator only for a directory.
C9_PathChecks ==
    /\ (directory # "" /\ ~is_directory(directory)) =>
          /\ pc \in {"help", "directory_empty", "exists", "is_directory",
                     "exit1"}
          /\ dir = {} /\ files = <<>> /\ futures = <<>>
          /\ executor = "none"
          /\ (pc = "exit1" /\ "h" \notin options) =>
                out = <<Line(IF exists(directory) THEN "Not a directory\n"
                             ELSE "Path does not exist\n")>>
    /\ (pc \notin {"help", "directory_empty", "exists", "is_directory",
                   "exit1"})
          => exists(directory) /\ is_directory(directory)

\* C9 witness: main has returned 1 on a path that does not exist.
C9_Witness ==
    /\ pc = "exit1"
    /\ directory = "/missing"
    /\ out = <<Line("Path does not exist\n")>>

\* C9, second witness: main has returned 1 on a regular file.
C9_WitnessNotADirectory ==
    /\ pc = "exit1"
    /\ directory = "/file"
    /\ out = <<Line("Not a directory\n")>>

\* The files of the enumeration that open, are not empty and do not end
\* with a newline.
PartialFiles ==
    Cardinality({k \in 1..Len(files) :
                    files[k].file.readable /\ Partial(files[k].file.content) = 1})

\* C10: count_lines_getline returns, for a file that opens, its newline
\* bytes plus 1 if it is not empty and its last byte is no newline; and the
\* total main prints for getline in benchmark mode is that of each
\* byte-counting strategy plus the number of such files.
C10_GetlineVsBytes ==
    /\ \A k \in 1..Len(futures) :
          (futures[k].fn = "count_lines_getline"
             /\ futures[k].state # "running" /\ ~futures[k].raised
             /\ futures[k].file.readable)
          => futures[k].value = NumNL(futures[k].file.content)
                                + Partial(futures[k].file.content)
    /\ (pc = "return" /\ executor = "count_getline_async") =>
          /\ lines_count = CountAll(files, "count_ncount_async") + PartialFiles
          /\ lines_count =
                CountAll(files, "count_buffered_ncount_async") + PartialFiles
    /\ ("b" \in options /\ pc = "exit0") =>
          /\ out[3].number[1] = out[5].number[1] + PartialFiles
          /\ out[3].number[1] = out[7].number[1] + PartialFiles
          /\ out[3].number[1] >= out[5].number[1]

\* C10 witness: benchmark mode is over and the getline total is above the
\* byte-counting totals.
C10_Witness ==
    /\ "b" \in options
    /\ pc = "exit0"
    /\ out[3].number[1] > out[5].number[1]
    /\ out[5].number[1] > 0

=============================================================================
